---- MODULE Spec2Model ----
(***************************************************************************)
(* Model of onir/util/download.py: the chunk generator download_iter, the  *)
(* raw stream IterStream that exposes an iterator of byte chunks through   *)
(* readinto, the gzip generator stream_gzip_decompress, and the entry      *)
(* points download, download_if_needed and download_stream.                *)
(*                                                                         *)
(* Bytes are small naturals and a bytes object is a sequence of them.      *)
(* Python's None and b'' are both falsy and the code only ever tests the   *)
(* truthiness of IterStream.leftover, so both are the empty sequence here. *)
(* An optional argument (expected_sha256, encoding) is a sequence of       *)
(* length at most one: << >> is None.                                      *)
(***************************************************************************)
EXTENDS Integers, Sequences, FiniteSets, TLC

VARIABLES
    mode,      \* which entry point this behaviour exercises
    resource,  \* the bytes the server holds for the URL
    args,      \* the arguments of the call in progress
    stream,    \* the stream object under use (IterStream and what it wraps)
    out,       \* the bytes the stream's reader has been handed so far
    last,      \* what the latest readinto call did
    pc,        \* position of the running download call
    it,        \* the download_iter generator held by download_tmp
    tmp,       \* the temporary file of download_tmp
    dest,      \* the file at the destination path
    hist       \* one record per download / download_if_needed call

vars == <<mode, resource, args, stream, out, last, pc, it, tmp, dest, hist>>

-----------------------------------------------------------------------------
(* Bounds *)

MaxChunks == 2
MaxChunkLen == 2
MaxBody == 2
MaxFill == 2
MaxCalls == 2

-----------------------------------------------------------------------------
(* Bytes and sequences *)

Byte == {0, 1, 2}
ListByte == {0, 1}

Min(a, b) == IF a < b THEN a ELSE b

\* chunk[:l]
Take(s, l) == SubSeq(s, 1, Min(l, Len(s)))

\* chunk[l:]
Drop(s, l) == SubSeq(s, Min(l, Len(s)) + 1, Len(s))

SeqsUpTo(S, n) == UNION {[1..k -> S] : k \in 0..n}

RECURSIVE Flat(_)
Flat(chunks) == IF chunks = << >> THEN << >> ELSE Head(chunks) \o Flat(Tail(chunks))

IsPrefix(p, s) == Len(p) <= Len(s) /\ SubSeq(s, 1, Len(p)) = p

\* the value never taken for true
TruthyNever(x) == FALSE

\* every value taken for true
TruthyAlways(x) == TRUE

\* Python truthiness of a bytes-or-None value
Truthy(x) == x # << >>

-----------------------------------------------------------------------------
(* hashlib.sha256, scaled down: a running value updated byte by byte; two  *)
(* different byte strings may share a digest.                              *)

HashMod == 2

HashInit == 0

RECURSIVE HashUpdate(_, _)
HashUpdate(h, data) ==
    IF data = << >> THEN h
    ELSE HashUpdate((h + Head(data) + 1) % HashMod, Tail(data))

\* hashlib.sha256(data).hexdigest()
Digest(data) == HashUpdate(HashInit, data)

Digests == 0..(HashMod - 1)

\* io.DEFAULT_BUFFER_SIZE, scaled down
DEFAULT_BUFFER_SIZE == 2

-----------------------------------------------------------------------------
(* requests.get(url, stream=True).iter_content(chunk_size): the body cut   *)
(* into non-empty chunks of at most chunk_size bytes.  Where the cuts fall *)
(* is up to the transport, so every such cutting is possible.              *)

RECURSIVE iter_content(_, _)
iter_content(body, chunk_size) ==
    IF body = << >> THEN {<< >>}
    ELSE UNION {{<<Take(body, k)>> \o rest : rest \in iter_content(Drop(body, k), chunk_size)} :
                k \in 1..Min(chunk_size, Len(body))}

(* The generator object download_iter(url, buffer_size, expected_sha256).  *)
(* Its body does not run before the first next().  resp is what the        *)
(* response will still yield; failAt is the number of chunks after which   *)
(* the transport raises (more than the number of chunks: never).  The      *)
(* fields gets, hashed, sent, finalized, warnings, exc and exhausted       *)
(* record what the generator has done.                                     *)
download_iter(chunks, failAt, buffer_size, expected_sha256) ==
    [kind |-> "download_iter", pc |-> "start", resp |-> chunks, failAt |-> failAt,
     buffer_size |-> buffer_size, expected_sha256 |-> expected_sha256,
     hasher |-> HashInit, gets |-> 0, hashed |-> 0, sent |-> << >>,
     finalized |-> 0, warnings |-> 0, exc |-> "none", exhausted |-> FALSE]

\* the comparison the wrong way round
HashMismatchInverted(h, expected_sha256) == h = expected_sha256[1]

\* line 62: h != expected_sha256
HashMismatch(h, expected_sha256) == h # expected_sha256[1]

\* a missing digest treated as a mismatch
AfterLoopStrict(g) ==
    LET g1 == [g EXCEPT !.finalized = @ + 1, !.exhausted = TRUE, !.pc = "done"]
    IN IF g.expected_sha256 # << >> /\ ~HashMismatch(g.hasher, g.expected_sha256)
       THEN [res |-> "stop", exc |-> "none", chunk |-> << >>, it |-> g1]
       ELSE [res |-> "raise", exc |-> "Integrity", chunk |-> << >>,
             it |-> [g1 EXCEPT !.exc = "Integrity"]]

\* the generator left able to run the end of its body again
AfterLoopAgain(g) ==
    LET g1 == [g EXCEPT !.finalized = @ + 1, !.exhausted = TRUE]
    IN IF g.expected_sha256 # << >>
       THEN IF HashMismatch(g.hasher, g.expected_sha256)
            THEN [res |-> "raise", exc |-> "Integrity", chunk |-> << >>,
                  it |-> [g1 EXCEPT !.exc = "Integrity"]]
            ELSE [res |-> "stop", exc |-> "none", chunk |-> << >>,
                  it |-> [g1 EXCEPT !.pc = "done"]]
       ELSE [res |-> "stop", exc |-> "none", chunk |-> << >>,
             it |-> [g1 EXCEPT !.warnings = @ + 1, !.pc = "done"]]

\* the digest taken and never compared
AfterLoopUnchecked(g) ==
    [res |-> "stop", exc |-> "none", chunk |-> << >>,
     it |-> [g EXCEPT !.finalized = @ + 1, !.exhausted = TRUE, !.pc = "done"]]

\* lines 59-69: what follows the loop over the response
AfterLoop(g) ==
    LET h == g.hasher
        g1 == [g EXCEPT !.finalized = @ + 1, !.exhausted = TRUE, !.pc = "done"]
    IN IF g.expected_sha256 # << >>
       THEN IF HashMismatch(h, g.expected_sha256)
            THEN [res |-> "raise", exc |-> "Integrity", chunk |-> << >>,
                  it |-> [g1 EXCEPT !.exc = "Integrity"]]
            ELSE [res |-> "stop", exc |-> "none", chunk |-> << >>, it |-> g1]
       ELSE [res |-> "stop", exc |-> "none", chunk |-> << >>,
             it |-> [g1 EXCEPT !.warnings = @ + 1]]

\* the chunk yielded without being fed to the hash
LoopBodyUnhashed(g) ==
    LET data == Head(g.resp)
    IN [res |-> "chunk", exc |-> "none", chunk |-> data,
        it |-> [g EXCEPT !.sent = Append(@, data), !.resp = Tail(@)]]

\* lines 55-58: one turn of the loop, up to the yield
LoopBody(g) ==
    LET data == Head(g.resp)
    IN [res |-> "chunk", exc |-> "none", chunk |-> data,
        it |-> [g EXCEPT !.hasher = HashUpdate(@, data),
                         !.hashed = @ + Len(data),
                         !.sent = Append(@, data),
                         !.resp = Tail(@)]]

\* next() on the generator
GenNext(g) ==
    IF g.pc = "done"
    THEN [res |-> "stop", exc |-> "none", chunk |-> << >>, it |-> g]
    ELSE LET g1 == IF g.pc = "start"
                   THEN [g EXCEPT !.gets = @ + 1, !.hasher = HashInit, !.pc = "body"]
                   ELSE g
         IN IF Len(g1.sent) = g1.failAt
            THEN [res |-> "raise", exc |-> "Network", chunk |-> << >>,
                  it |-> [g1 EXCEPT !.pc = "done", !.exc = "Network"]]
            ELSE IF g1.resp # << >> THEN LoopBody(g1) ELSE AfterLoop(g1)

\* next() on a plain iterator over a list of chunks
ListNext(l) ==
    IF l.items = << >>
    THEN [res |-> "stop", exc |-> "none", chunk |-> << >>, it |-> l]
    ELSE [res |-> "chunk", exc |-> "none", chunk |-> Head(l.items),
          it |-> [l EXCEPT !.items = Tail(@)]]

ListIter(chunks) == [kind |-> "list", items |-> chunks]

-----------------------------------------------------------------------------
(* zlib.decompressobj(32 + zlib.MAX_WBITS), scaled down to a byte-at-a-    *)
(* time state machine: a header byte GzHeader, then literal bytes that are *)
(* output as they are, up to the end-of-stream byte GzEnd; what follows    *)
(* the end of the stream is ignored (unused_data).  A stream that does not *)
(* start with the header raises zlib.error.                                *)

GzHeader == 2

GzEnd == 2

decompressobj == "header"

RECURSIVE decompress(_, _, _)
decompress(dec, chunk, rv) ==
    IF chunk = << >> THEN [dec |-> dec, rv |-> rv, ok |-> TRUE]
    ELSE LET c == Head(chunk)
         IN CASE dec = "header" ->
                     IF c = GzHeader THEN decompress("data", Tail(chunk), rv)
                     ELSE [dec |-> dec, rv |-> << >>, ok |-> FALSE]
              [] dec = "data" ->
                     IF c = GzEnd THEN decompress("end", Tail(chunk), rv)
                     ELSE decompress("data", Tail(chunk), Append(rv, c))
              [] OTHER -> [dec |-> dec, rv |-> rv, ok |-> TRUE]

-----------------------------------------------------------------------------
(* IterStream, the io.BufferedReader around it, and the generator          *)
(* stream_gzip_decompress call one another.                                *)

\* b'\n', where iterating a BufferedReader ends a line
NL == 1

RECURSIVE IndexOfNL(_, _)
IndexOfNL(s, i) ==
    IF i > Len(s) THEN 0 ELSE IF s[i] = NL THEN i ELSE IndexOfNL(s, i + 1)

\* IterStream.__init__
IterStream(iter) == [kind |-> "IterStream", leftover |-> << >>, it |-> iter]

RECURSIVE ItNext(_)
RECURSIVE readinto_loop(_, _, _)
RECURSIVE readline_fill(_, _)
RECURSIVE stream_gzip_decompress_next(_)

\* the loop taken once: an if in place of the while
KeepFillingOnce(pos, n) == pos = 0 /\ pos < n

\* line 104: while pos < len(b)
KeepFilling(pos, n) == pos < n

\* the rest of the chunk thrown away
SliceDropRest(chunk, l) == [output |-> Take(chunk, l), leftover |-> << >>]

\* line 107: output, self.leftover = chunk[:l], chunk[l:]
Slice(chunk, l) == [output |-> Take(chunk, l), leftover |-> Drop(chunk, l)]

\* except Exception in place of except StopIteration
CaughtAny(pulled) == pulled.res \in {"stop", "raise"}

\* lines 103, 111: the outcome of next(self.it) that the except clause catches
Caught(pulled) == pulled.res = "stop"

(* IterStream.readinto(b) with len(b) = n; b is the part of the caller's   *)
(* buffer written so far.  The result: ret and data are what the caller    *)
(* gets back (the count and the bytes b[:ret]), raised the exception that  *)
(* left the call instead, stopped whether StopIteration was caught, lost   *)
(* the bytes copied into the buffer by a call that then raised.            *)
readinto_loop(self, n, b) ==
    IF KeepFilling(Len(b), n)
    THEN LET l == n - Len(b)
             pulled == IF Truthy(self.leftover)
                       THEN [res |-> "chunk", exc |-> "none", chunk |-> self.leftover,
                             it |-> self.it]
                       ELSE ItNext(self.it)
             self1 == [self EXCEPT !.it = pulled.it]
         IN IF pulled.res = "chunk"
            THEN LET sl == Slice(pulled.chunk, l)
                 IN readinto_loop([self1 EXCEPT !.leftover = sl.leftover], n, b \o sl.output)
            ELSE IF Caught(pulled)
            THEN [ret |-> Len(b), data |-> b, raised |-> "none", stopped |-> TRUE,
                  lost |-> << >>, self |-> self1]
            ELSE [ret |-> 0, data |-> << >>, raised |-> pulled.exc, stopped |-> FALSE,
                  lost |-> b, self |-> self1]
    ELSE [ret |-> Len(b), data |-> b, raised |-> "none", stopped |-> FALSE,
          lost |-> << >>, self |-> self]

readinto(self, n) == readinto_loop(self, n, << >>)

\* io.BufferedReader(raw, buffer_size)
BufferedReader(raw, buffer_size) ==
    [kind |-> "BufferedReader", rbuf |-> << >>, raw |-> raw, buffer_size |-> buffer_size]

(* BufferedReader.readline once the buffered bytes hold no newline: the    *)
(* buffer is refilled from raw.readinto, buffer_size bytes at a time, up   *)
(* to a newline or the end of the stream; acc is the line collected so far *)
readline_fill(br, acc) ==
    LET r == readinto(br.raw, br.buffer_size)
        br1 == [br EXCEPT !.raw = r.self]
    IN IF r.raised # "none"
       THEN [res |-> "raise", exc |-> r.raised, chunk |-> << >>, it |-> br1]
       ELSE IF r.ret = 0
       THEN IF acc = << >>
            THEN [res |-> "stop", exc |-> "none", chunk |-> << >>, it |-> br1]
            ELSE [res |-> "chunk", exc |-> "none", chunk |-> acc, it |-> br1]
       ELSE LET i == IndexOfNL(r.data, 1)
            IN IF i > 0
               THEN [res |-> "chunk", exc |-> "none", chunk |-> acc \o Take(r.data, i),
                     it |-> [br1 EXCEPT !.rbuf = Drop(r.data, i)]]
               ELSE readline_fill(br1, acc \o r.data)

\* next() on a BufferedReader: the next line, StopIteration at the end
BufferedNext(br) ==
    LET i == IndexOfNL(br.rbuf, 1)
    IN IF i > 0
       THEN [res |-> "chunk", exc |-> "none", chunk |-> Take(br.rbuf, i),
             it |-> [br EXCEPT !.rbuf = Drop(@, i)]]
       ELSE readline_fill([br EXCEPT !.rbuf = << >>], br.rbuf)

\* the generator object stream_gzip_decompress(stream)
stream_gzip_decompress(s) ==
    [kind |-> "stream_gzip_decompress", pc |-> "start", dec |-> decompressobj, stream |-> s]

(* next() on that generator; for chunk in stream takes the lines of a      *)
(* BufferedReader, the items of a list                                     *)
stream_gzip_decompress_next(g) ==
    IF g.pc = "done"
    THEN [res |-> "stop", exc |-> "none", chunk |-> << >>, it |-> g]
    ELSE LET r == IF g.stream.kind = "list" THEN ListNext(g.stream)
                  ELSE BufferedNext(g.stream)
             g1 == [g EXCEPT !.stream = r.it, !.pc = "loop"]
         IN IF r.res # "chunk"
            THEN [res |-> r.res, exc |-> r.exc, chunk |-> << >>,
                  it |-> [g1 EXCEPT !.pc = "done"]]
            ELSE LET d == decompress(g1.dec, r.chunk, << >>)
                 IN IF ~d.ok
                    THEN [res |-> "raise", exc |-> "zlib", chunk |-> << >>,
                          it |-> [g1 EXCEPT !.pc = "done"]]
                    ELSE IF Truthy(d.rv)
                    THEN [res |-> "chunk", exc |-> "none", chunk |-> d.rv,
                          it |-> [g1 EXCEPT !.dec = d.dec]]
                    ELSE stream_gzip_decompress_next([g1 EXCEPT !.dec = d.dec])

\* next(self.it), whatever self.it is
ItNext(i) ==
    CASE i.kind = "list" -> ListNext(i)
      [] i.kind = "download_iter" -> GenNext(i)
      [] OTHER -> stream_gzip_decompress_next(i)

-----------------------------------------------------------------------------
(* download_stream and what it builds *)

\* str.endswith
EndsWith(s, suffix) ==
    Len(s) >= Len(suffix) /\ SubSeq(s, Len(s) - Len(suffix) + 1, Len(s)) = suffix

\* skip_gz ignored
UseGzipAlways(url, skip_gz) == EndsWith(url, <<".", "g", "z">>)

\* line 77: url.endswith('.gz') and not skip_gz
UseGzip(url, skip_gz) == EndsWith(url, <<".", "g", "z">>) /\ ~skip_gz

\* line 79: encoding is not None
UseText(encoding) == encoding # << >>

\* io.TextIOWrapper(stream, encoding=encoding)
TextIOWrapper(s, encoding) == [kind |-> "TextIOWrapper", buffer |-> s, encoding |-> encoding]

(* _url2stream(url, expected_sha256=...) as download_stream calls it: the  *)
(* buffer size is the default of _url2stream.  net is what the transport   *)
(* will do: the chunks of the response and where it fails.                 *)
url2stream(url, buffer_size, expected_sha256, net) ==
    BufferedReader(IterStream(download_iter(net.chunks, net.failAt, buffer_size,
                                            expected_sha256)),
                   buffer_size)

download_stream(url, encoding, skip_gz, buffer_size, expected_sha256, net) ==
    LET s0 == url2stream(url, DEFAULT_BUFFER_SIZE, expected_sha256, net)
        s1 == IF UseGzip(url, skip_gz)
              THEN BufferedReader(IterStream(stream_gzip_decompress(s0)), buffer_size)
              ELSE s0
    IN IF UseText(encoding) THEN TextIOWrapper(s1, encoding) ELSE s1

\* the stream below the text decoder, if there is one
Bytes(s) == IF s.kind = "TextIOWrapper" THEN s.buffer ELSE s

\* the raw stream the reader's reads end up in: the outermost IterStream
RECURSIVE OuterRaw(_)
OuterRaw(s) ==
    CASE s.kind = "TextIOWrapper" -> OuterRaw(s.buffer)
      [] s.kind = "BufferedReader" -> s.raw
      [] OTHER -> s

RECURSIVE WithOuterRaw(_, _)
WithOuterRaw(s, raw) ==
    CASE s.kind = "TextIOWrapper" -> [s EXCEPT !.buffer = WithOuterRaw(s.buffer, raw)]
      [] s.kind = "BufferedReader" -> [s EXCEPT !.raw = raw]
      [] OTHER -> raw

\* the download_iter generator at the bottom of a stream, or of an iterator
RECURSIVE Fetcher(_)
Fetcher(s) ==
    CASE s.kind = "TextIOWrapper" -> Fetcher(s.buffer)
      [] s.kind = "BufferedReader" -> Fetcher(s.raw)
      [] s.kind = "IterStream" -> Fetcher(s.it)
      [] s.kind = "stream_gzip_decompress" -> Fetcher(s.stream)
      [] OTHER -> s

\* the innermost IterStream of a stream: the one over the bottom iterator
RECURSIVE InnerRaw(_)
InnerRaw(s) ==
    CASE s.kind = "TextIOWrapper" -> InnerRaw(s.buffer)
      [] s.kind = "BufferedReader" -> InnerRaw(s.raw)
      [] s.kind = "stream_gzip_decompress" -> InnerRaw(s.stream)
      [] s.kind = "IterStream" ->
             IF s.it.kind = "stream_gzip_decompress" THEN InnerRaw(s.it) ELSE s
      [] OTHER -> s

-----------------------------------------------------------------------------
(* The inputs *)

None == << >>

NoObject == [kind |-> "none"]

NoArgs == [fn |-> "none"]

NoLast ==
    [valid |-> FALSE, n |-> 0, ret |-> 0, data |-> << >>, raised |-> "none",
     stopped |-> FALSE, lost |-> << >>, before |-> 0, unit |-> TRUE,
     pre |-> NoObject]

Absent == [exists |-> FALSE, data |-> << >>]

File(data) == [exists |-> TRUE, data |-> data]

\* what the destination holds when a file is there before the first call
OldData == <<0, 0>>

Bodies == SeqsUpTo(Byte, MaxBody)

FileBodies == SeqsUpTo(ListByte, MaxBody)

ChunkLists == SeqsUpTo(SeqsUpTo(ListByte, MaxChunkLen), MaxChunks)

\* [b"ab", b"cde", b"f"]
ExampleChunks == <<<<97, 98>>, <<99, 100, 101>>, <<102>>>>

Urls == {<<"a">>, <<"a", ".", "g", "z">>, <<".", "g", "z", "a">>}

Encodings == {None, <<"utf8">>}

Expected == {None} \cup {<<d>> : d \in Digests}

BufferSizes == 1..DEFAULT_BUFFER_SIZE

\* what the transport can do for a generator that asks for chunk_size bytes
Nets(body, chunk_size) ==
    {[chunks |-> c, failAt |-> f] :
        <<c, f>> \in {<<c, f>> \in iter_content(body, chunk_size) \X (0..(Len(body) + 1)) :
                         f <= Len(c) + 1}}

-----------------------------------------------------------------------------
(* Reading a stream *)

\* what a readinto call finds: the state of the bottom of the stream before it
Pre(s) ==
    LET f == Fetcher(s)
    IN IF f.kind = "download_iter"
       THEN [kind |-> "pre", left |-> Len(Flat(f.resp)), chunks |-> Len(f.resp),
             leftover |-> InnerRaw(s).leftover, done |-> f.pc = "done"]
       ELSE [kind |-> "pre", left |-> Len(Flat(f.items)), chunks |-> Len(f.items),
             leftover |-> InnerRaw(s).leftover, done |-> FALSE]

(* A readinto call on the outermost IterStream with a buffer of n bytes    *)
Fill(n) ==
    /\ pc = "open"
    /\ LET r == readinto(OuterRaw(stream), n)
       IN /\ stream' = WithOuterRaw(stream, r.self)
          /\ out' = out \o r.data
          /\ last' = [valid |-> TRUE, n |-> n, ret |-> r.ret, data |-> r.data,
                      raised |-> r.raised, stopped |-> r.stopped, lost |-> r.lost,
                      before |-> Len(out), unit |-> last.unit /\ n = 1,
                      pre |-> Pre(stream)]
    /\ UNCHANGED <<mode, resource, args, pc, it, tmp, dest, hist>>

\* the caller of IterStream.readinto chooses the size of the buffer
ReadRaw ==
    /\ mode = "adapter"
    /\ \E n \in 1..MaxFill : Fill(n)

(* The reader of the stream download_stream returned: its reads reach      *)
(* readinto through the BufferedReader around the outermost IterStream,    *)
(* which asks for the room left in its buffer: 1 to buffer_size bytes.     *)
Read ==
    /\ mode = "stream"
    /\ pc = "open"
    /\ \E n \in 1..Bytes(stream).buffer_size : Fill(n)

\* download_stream(url, encoding, skip_gz, buffer_size, expected_sha256)
DownloadStream ==
    /\ mode = "stream"
    /\ pc = "idle"
    /\ \E url \in Urls, encoding \in Encodings, skip_gz \in BOOLEAN,
          buffer_size \in BufferSizes, expected_sha256 \in Expected :
         \E chunk_size \in BufferSizes : \E net \in Nets(resource, chunk_size) :
            LET s == download_stream(url, encoding, skip_gz, buffer_size,
                                     expected_sha256, net)
            IN /\ Fetcher(s).buffer_size = chunk_size
               /\ stream' = s
               /\ args' = [fn |-> "download_stream", url |-> url, encoding |-> encoding,
                           skip_gz |-> skip_gz, buffer_size |-> buffer_size,
                           expected_sha256 |-> expected_sha256]
    /\ pc' = "open"
    /\ UNCHANGED <<mode, resource, out, last, it, tmp, dest, hist>>

InitAdapter ==
    /\ mode = "adapter"
    /\ resource = << >>
    /\ \E chunks \in ChunkLists \cup {ExampleChunks} :
          /\ args = [fn |-> "IterStream", chunks |-> chunks]
          /\ stream = IterStream(ListIter(chunks))
    /\ out = << >>
    /\ last = NoLast
    /\ pc = "open"
    /\ it = NoObject
    /\ tmp = Absent
    /\ dest = Absent
    /\ hist = << >>

InitStream ==
    /\ mode = "stream"
    /\ resource \in Bodies
    /\ args = NoArgs
    /\ stream = NoObject
    /\ out = << >>
    /\ last = NoLast
    /\ pc = "idle"
    /\ it = NoObject
    /\ tmp = Absent
    /\ dest = Absent
    /\ hist = << >>

NextAdapter == ReadRaw

NextStream == DownloadStream \/ Read

SpecAdapter == InitAdapter /\ [][NextAdapter]_vars

SpecStream == InitStream /\ [][NextStream]_vars

-----------------------------------------------------------------------------
(* download and download_if_needed.  A call is followed through the steps  *)
(* at which the file system can be observed: each chunk written to the     *)
(* temporary file, and the steps of shutil.move.                           *)

\* the test left out
AlwaysDownload(d) == TRUE

\* the test the wrong way round
NeedsDownloadInverted(d) == d.exists

\* line 85: not os.path.exists(file_name)
NeedsDownload(d) == ~d.exists

\* the call in progress ends: its record gets the outcome
Finish(outcome) == hist' = [hist EXCEPT ![Len(hist)].outcome = outcome]

(* lines 26-29 and 40-41: download enters download_tmp, which creates the  *)
(* temporary directory and file and the generator it is about to drain     *)
StartDownload(fn, buffer_size, expected_sha256) ==
    /\ \E net \in Nets(resource, buffer_size) :
          it' = download_iter(net.chunks, net.failAt, buffer_size, expected_sha256)
    /\ args' = [fn |-> fn, buffer_size |-> buffer_size,
                expected_sha256 |-> expected_sha256]
    /\ hist' = Append(hist, [fn |-> fn, fetch |-> FALSE, outcome |-> "running"])
    /\ tmp' = File(<< >>)
    /\ pc' = "writing"
    /\ UNCHANGED dest

\* download(url, file_name, buffer_size, expected_sha256)
Download ==
    /\ mode = "file"
    /\ pc = "idle"
    /\ Len(hist) < MaxCalls
    /\ \E buffer_size \in BufferSizes, expected_sha256 \in Expected :
          StartDownload("download", buffer_size, expected_sha256)
    /\ UNCHANGED <<mode, resource, stream, out, last>>

\* download_if_needed(url, file_name, expected_sha256)
DownloadIfNeeded ==
    /\ mode = "file"
    /\ pc = "idle"
    /\ Len(hist) < MaxCalls
    /\ \E expected_sha256 \in Expected :
          IF NeedsDownload(dest)
          THEN StartDownload("download_if_needed", DEFAULT_BUFFER_SIZE, expected_sha256)
          ELSE /\ args' = [fn |-> "download_if_needed",
                           buffer_size |-> DEFAULT_BUFFER_SIZE,
                           expected_sha256 |-> expected_sha256]
               /\ hist' = Append(hist, [fn |-> "download_if_needed", fetch |-> FALSE,
                                        outcome |-> "ok"])
               /\ UNCHANGED <<pc, it, tmp, dest>>
    /\ UNCHANGED <<mode, resource, stream, out, last>>

(* lines 29-32: one turn of the loop of download_tmp.  A chunk is written  *)
(* to the temporary file; at StopIteration the file is handed to download; *)
(* an exception leaves the with blocks, which removes the temporary        *)
(* directory, and then leaves download.                                    *)
WriteStep ==
    /\ pc = "writing"
    /\ LET r == GenNext(it)
           fetched == [hist EXCEPT ![Len(hist)].fetch = r.it.gets > 0]
       IN /\ it' = r.it
          /\ CASE r.res = "chunk" ->
                    /\ tmp' = File(tmp.data \o r.chunk)
                    /\ hist' = fetched
                    /\ pc' = "writing"
               [] r.res = "stop" ->
                    /\ tmp' = tmp
                    /\ hist' = fetched
                    /\ pc' = "move"
               [] OTHER ->
                    /\ tmp' = Absent
                    /\ hist' = [fetched EXCEPT ![Len(hist)].outcome = r.exc]
                    /\ pc' = "idle"
    /\ UNCHANGED <<mode, resource, args, stream, out, last, dest>>

(* line 42, shutil.move(f.name, file_name): os.rename when it succeeds ... *)
MoveRename ==
    /\ pc = "move"
    /\ dest' = File(tmp.data)
    /\ tmp' = Absent
    /\ Finish("ok")
    /\ pc' = "idle"
    /\ UNCHANGED <<mode, resource, args, stream, out, last, it>>

(* ... and when os.rename raises OSError (the temporary directory is on    *)
(* another file system than the destination), a copy of the file followed  *)
(* by the removal of the source.  The copy opens the destination for       *)
(* writing, which creates or truncates it ...                              *)
MoveCopyOpen ==
    /\ pc = "move"
    /\ dest' = File(<< >>)
    /\ pc' = "copying"
    /\ UNCHANGED <<mode, resource, args, stream, out, last, it, tmp, hist>>

\* ... writes it piece by piece ...
MoveCopyWrite ==
    /\ pc = "copying"
    /\ Len(dest.data) < Len(tmp.data)
    /\ \E k \in 1..(Len(tmp.data) - Len(dest.data)) :
          dest' = File(Take(tmp.data, Len(dest.data) + k))
    /\ UNCHANGED <<mode, resource, args, stream, out, last, pc, it, tmp, hist>>

\* ... and, the copy complete, removes the source.
MoveCopyDone ==
    /\ pc = "copying"
    /\ dest.data = tmp.data
    /\ tmp' = Absent
    /\ Finish("ok")
    /\ pc' = "idle"
    /\ UNCHANGED <<mode, resource, args, stream, out, last, it, dest>>

(* shutil.move raises (the destination cannot be opened, the disk fills up *)
(* during the copy): the with blocks remove the temporary directory.       *)
MoveFail ==
    /\ pc \in {"move", "copying"}
    /\ tmp' = Absent
    /\ Finish("OSError")
    /\ pc' = "idle"
    /\ UNCHANGED <<mode, resource, args, stream, out, last, it, dest>>

InitFile ==
    /\ mode = "file"
    /\ resource \in FileBodies
    /\ args = NoArgs
    /\ stream = NoObject
    /\ out = << >>
    /\ last = NoLast
    /\ pc = "idle"
    /\ it = NoObject
    /\ tmp = Absent
    /\ dest \in {Absent, File(OldData)}
    /\ hist = << >>

NextFile ==
    \/ Download
    \/ DownloadIfNeeded
    \/ WriteStep
    \/ MoveRename
    \/ MoveCopyOpen
    \/ MoveCopyWrite
    \/ MoveCopyDone
    \/ MoveFail

SpecFile == InitFile /\ [][NextFile]_vars

Init == InitFile \/ InitStream

Next == NextFile \/ NextStream

Spec == Init /\ [][Next]_vars

-----------------------------------------------------------------------------
(* Properties of IterStream.readinto over a plain iterator of chunks,      *)
(* under SpecAdapter                                                       *)

AllBytes == Flat(args.chunks)

(* C1: the bytes handed out by the readinto calls are the bytes of the     *)
(* chunks, in order, none dropped and none twice: what has been handed     *)
(* out, the leftover and the chunks not yet pulled always make up the      *)
(* whole input; each call hands out the bytes that follow those handed out *)
(* before it; a call made when everything has been handed out returns 0;   *)
(* and a first call with a buffer larger than the input returns all of it. *)
C1_InOrderNoLossNoDup ==
    mode = "adapter" =>
        /\ out \o stream.leftover \o Flat(stream.it.items) = AllBytes
        /\ IsPrefix(out, AllBytes)
        /\ last.valid =>
              /\ last.raised = "none"
              /\ last.data = SubSeq(AllBytes, last.before + 1, last.before + last.ret)
              /\ Len(out) = last.before + last.ret
              /\ (last.before = Len(AllBytes) => last.ret = 0)
              /\ (last.before = 0 /\ last.n > Len(AllBytes) => last.ret = Len(AllBytes))

\* [ab, cde, f] read one byte at a time: all six bytes are out and the next read is empty
C1_Witness ==
    /\ mode = "adapter"
    /\ args.chunks = ExampleChunks
    /\ last.valid /\ last.unit
    /\ out = <<97, 98, 99, 100, 101, 102>>
    /\ last.ret = 0

(* C2: a readinto call for n bytes returns n bytes unless the iterator     *)
(* ran out during that call: a shorter return, zero included, happens only *)
(* when StopIteration was caught, and then nothing is left to hand out.    *)
C2_ShortOnlyAtEnd ==
    mode = "adapter" /\ last.valid =>
        /\ last.ret <= last.n
        /\ last.ret < last.n => last.stopped
        /\ last.stopped => ~Truthy(stream.leftover) /\ stream.it.items = << >>
        /\ ~last.stopped => last.ret = last.n

\* an input with an empty chunk and a two-byte chunk, read by 1 and then by 2: the second read is short
C2_Witness ==
    /\ mode = "adapter"
    /\ \E i \in 1..Len(args.chunks) : args.chunks[i] = << >>
    /\ \E i \in 1..Len(args.chunks) : Len(args.chunks[i]) > 1
    /\ last.valid /\ last.before = 1 /\ last.n = 2 /\ last.ret = 1 /\ last.stopped

-----------------------------------------------------------------------------
(* Properties of download_iter and of the pipeline *)

\* the download_iter generator of the call in progress
Gen == IF mode = "file" THEN it ELSE Fetcher(stream)

\* whether the stream has the gzip generator in it
HasGzip(s) ==
    LET raw == OuterRaw(s)
    IN raw.kind = "IterStream" /\ raw.it.kind = "stream_gzip_decompress"

(* C3: download_iter raises the Integrity error exactly when, the response *)
(* exhausted, a digest was expected and it is not the digest of the bytes  *)
(* of the body; when it raises, every chunk of the body has been yielded;  *)
(* with the digest of the body expected the generator ends without error.  *)
C3_IntegrityOnlyAtEnd ==
    Gen.kind = "download_iter" =>
        LET g == Gen
            wrong == g.expected_sha256 # None /\ g.expected_sha256[1] # Digest(resource)
        IN /\ g.exc = "Integrity" =>
                 /\ wrong
                 /\ g.exhausted /\ g.resp = << >>
                 /\ Flat(g.sent) = resource
           /\ g.exhausted =>
                 /\ Flat(g.sent) = resource
                 /\ g.pc = "done"
                 /\ (g.exc = "Integrity") <=> wrong
                 /\ ~wrong => g.exc = "none"

\* a body of two chunks, both yielded, then the Integrity error
C3_Witness ==
    /\ mode = "file"
    /\ Gen.kind = "download_iter"
    /\ Gen.exc = "Integrity"
    /\ Len(Gen.sent) = 2
    /\ hist[Len(hist)].outcome = "Integrity"

(* C4: the bytes fed to the hash are the bytes download_iter has yielded,  *)
(* and when the pipeline has finished, with the end of the stream or with  *)
(* an error, they are also the bytes its consumer was handed: the bytes    *)
(* written to the temporary file, or the bytes returned by the readinto    *)
(* calls of a stream without decompression.                                *)
C4_ByteConservation ==
    Gen.kind = "download_iter" =>
        LET g == Gen
        IN /\ g.hashed = Len(Flat(g.sent))
           /\ g.hasher = Digest(Flat(g.sent))
           /\ mode = "file" /\ pc \in {"writing", "move", "copying"} =>
                 tmp.data = Flat(g.sent)
           /\ (/\ mode = "stream" /\ ~HasGzip(stream)
               /\ last.valid /\ (last.stopped \/ last.raised # "none")) =>
                 out = Flat(g.sent)

(* C5: the destination never holds part of a download: it is as it was     *)
(* before the first call (absent, or the old file) or it holds the whole   *)
(* body.                                                                   *)
C5_NoPartialAtDestination ==
    mode = "file" => dest \in {Absent, File(OldData), File(resource)}

-----------------------------------------------------------------------------
(* Properties of download_if_needed *)

IsDin(i) == hist[i].fn = "download_if_needed"

DinCall ==
    /\ mode = "file"
    /\ Len(hist') = Len(hist) + 1
    /\ hist'[Len(hist')].fn = "download_if_needed"

(* C7: a download_if_needed call made when the destination exists changes  *)
(* nothing: no generator is created or advanced (no fetch, no hash), no    *)
(* file is touched, and it returns without raising whatever digest is      *)
(* expected; made when the destination does not exist it starts what       *)
(* download starts, with the expected digest it was given.                 *)
C7_NoOpWhenPresent ==
    [][DinCall =>
         IF dest.exists
         THEN /\ dest' = dest /\ tmp' = tmp /\ it' = it /\ pc' = pc
              /\ hist'[Len(hist')] = [fn |-> "download_if_needed", fetch |-> FALSE,
                                      outcome |-> "ok"]
         ELSE /\ dest' = dest /\ tmp' = File(<< >>) /\ pc' = "writing"
              /\ hist'[Len(hist')].outcome = "running"
              /\ \E net \in Nets(resource, DEFAULT_BUFFER_SIZE) :
                    it' = download_iter(net.chunks, net.failAt, DEFAULT_BUFFER_SIZE,
                                        args'.expected_sha256)]_vars

\* the old file is there, a digest that is not its digest is expected, and the call has returned
C7_Witness ==
    /\ mode = "file"
    /\ Len(hist) = 1 /\ IsDin(1) /\ ~hist[1].fetch /\ hist[1].outcome = "ok"
    /\ dest = File(OldData)
    /\ args.expected_sha256 # None /\ args.expected_sha256[1] # Digest(OldData)
    /\ it = NoObject /\ pc = "idle"

-----------------------------------------------------------------------------
(* Properties of download_stream *)

\* the bytes that were still to be handed out when the latest readinto call began
PendingBefore == Len(last.pre.leftover) + last.pre.left

(* C8, as stated: the Integrity error reaches the reader at the readinto   *)
(* call that drains the final chunk, so for a body that is not empty, when *)
(* that call began some byte of the body was still to be pulled or left    *)
(* over.                                                                   *)
C8_ErrorAtFinalChunkFill ==
    (/\ mode = "stream" /\ resource # << >>
     /\ last.valid /\ last.raised = "Integrity") => PendingBefore > 0

(* C8, amended: an exception raised by download_iter during a readinto     *)
(* call leaves that call, with or without the gzip generator in between,   *)
(* and is not turned into a return value; the Integrity error is raised    *)
(* when the whole body has been yielded, and without the gzip generator it *)
(* reaches the reader at the first readinto call that asks for more bytes  *)
(* than are still to be handed out: the call that drains the final chunk   *)
(* when that chunk does not fill its buffer, the call after it otherwise.  *)
C8_FailurePropagates ==
    mode = "stream" /\ last.valid =>
        LET g == Fetcher(stream)
            wrong == g.expected_sha256 # None /\ g.expected_sha256[1] # Digest(resource)
        IN /\ ~last.pre.done /\ g.exc # "none" => last.raised = g.exc
           /\ last.raised \in {"Integrity", "Network"} => last.raised = g.exc /\ ~last.pre.done
           /\ last.raised = "Integrity" => g.exhausted /\ Flat(g.sent) = resource
           /\ (~HasGzip(stream) /\ wrong /\ g.failAt > Len(g.sent) + Len(g.resp)
               /\ ~last.pre.done) =>
                 IF last.n > PendingBefore
                 THEN last.raised = "Integrity"
                 ELSE last.raised = "none" /\ last.ret = last.n

\* the error comes through the gzip generator after decompressed bytes were read
C8_Witness ==
    /\ mode = "stream"
    /\ HasGzip(stream)
    /\ last.valid /\ last.raised = "Integrity"
    /\ Len(out) > 0

(* C9: without an expected digest download_iter never raises the Integrity *)
(* error; it gives one warning, when the response is exhausted and not     *)
(* before, and then ends as an exhausted generator; so no download,        *)
(* download_if_needed or readinto call ends with the Integrity error.      *)
C9_NoDigestNoFailure ==
    Gen.kind = "download_iter" /\ Gen.expected_sha256 = None =>
        LET g == Gen
        IN /\ g.exc # "Integrity"
           /\ g.warnings = (IF g.exhausted THEN 1 ELSE 0)
           /\ g.exhausted => g.pc = "done" /\ g.exc = "none" /\ Flat(g.sent) = resource
           /\ mode = "file" => hist[Len(hist)].outcome # "Integrity"
           /\ mode = "file" /\ g.exhausted => pc \in {"move", "copying", "idle"}
           /\ mode = "stream" => last.raised # "Integrity"

\* a download without digest has put the whole body in place, after the one warning
C9_Witness ==
    /\ mode = "file"
    /\ Gen.kind = "download_iter" /\ Gen.expected_sha256 = None
    /\ Gen.warnings = 1
    /\ hist[Len(hist)].outcome = "ok"
    /\ dest = File(resource) /\ Len(resource) = MaxBody

(* C10: the stream download_stream returns has the gzip generator, in an   *)
(* IterStream of its own, exactly when the last three characters of the    *)
(* URL are ".gz" and skip_gz is false; it is a text wrapper exactly when   *)
(* an encoding is given; and at the bottom is an IterStream over           *)
(* download_iter with the expected digest of the call.                     *)
C10_Composition ==
    mode = "stream" /\ pc = "open" =>
        LET url == args.url
            n == Len(url)
            gz == /\ n >= 3
                  /\ url[n - 2] = "." /\ url[n - 1] = "g" /\ url[n] = "z"
                  /\ ~args.skip_gz
            b == Bytes(stream)
        IN /\ (stream.kind = "TextIOWrapper") <=> (args.encoding # None)
           /\ stream.kind = "TextIOWrapper" => stream.encoding = args.encoding
           /\ b.kind = "BufferedReader" /\ b.raw.kind = "IterStream"
           /\ (b.raw.it.kind = "stream_gzip_decompress") <=> gz
           /\ gz => /\ b.raw.it.stream.kind = "BufferedReader"
                    /\ b.raw.it.stream.raw.kind = "IterStream"
                    /\ b.raw.it.stream.raw.it.kind = "download_iter"
           /\ ~gz => b.raw.it.kind = "download_iter"
           /\ InnerRaw(stream).it.kind = "download_iter"
           /\ Fetcher(stream).expected_sha256 = args.expected_sha256

\* a URL ending in .gz with skip_gz set and an encoding: a text wrapper, no gzip generator, bytes read
C10_Witness ==
    /\ mode = "stream" /\ pc = "open"
    /\ args.url = <<"a", ".", "g", "z">> /\ args.skip_gz /\ args.encoding # None
    /\ stream.kind = "TextIOWrapper" /\ ~HasGzip(stream)
    /\ args.expected_sha256 # None
    /\ Len(out) > 0

-----------------------------------------------------------------------------
(* Laziness of IterStream.readinto, under SpecAdapter *)

\* the number of chunks pulled from the iterator so far
Pulled == Len(args.chunks) - Len(stream.it.items)

\* the number of chunks pulled by the latest readinto call
PulledNow == last.pre.chunks - Len(stream.it.items)

IsSuffix(p, s) == Len(p) <= Len(s) /\ SubSeq(s, Len(s) - Len(p) + 1, Len(s)) = p

(* C11: IterStream pulls nothing before the first readinto call; what it   *)
(* keeps between calls is the end of the one chunk pulled last, every      *)
(* chunk pulled before that one being handed out whole; a call pulls only  *)
(* when the leftover it found does not fill its buffer, and never once the *)
(* buffer is full; so the chunks before the one pulled last hold fewer     *)
(* bytes than have been asked for.                                         *)
C11_LazyPull ==
    mode = "adapter" =>
        /\ ~last.valid => Pulled = 0 /\ stream.leftover = << >>
        /\ Pulled = 0 => stream.leftover = << >>
        /\ Pulled > 0 =>
              /\ IsSuffix(stream.leftover, args.chunks[Pulled])
              /\ Len(Flat(SubSeq(args.chunks, 1, Pulled - 1))) <= Len(out)
        /\ last.valid =>
              /\ PulledNow >= 0
              /\ PulledNow > 0 => Len(last.pre.leftover) < last.n
              /\ Pulled > 0 =>
                    Len(Flat(SubSeq(args.chunks, 1, Pulled - 1))) < last.before + last.n
              /\ (last.ret = last.n /\ PulledNow > 0) =>
                    Len(Flat(SubSeq(args.chunks, 1, Pulled - 1))) < Len(out)

\* [ab, cde, f] after two one-byte reads and a two-byte read: d and e are left over, f is not pulled
C11_Witness ==
    /\ mode = "adapter"
    /\ args.chunks = ExampleChunks
    /\ out = <<97, 98, 99>>
    /\ stream.leftover = <<100, 101>>
    /\ Pulled = 2 /\ PulledNow = 1

-----------------------------------------------------------------------------
(* The temporary file of download, under SpecFile *)

\* no call of download has returned without raising
NoCallSucceeded == \A i \in 1..Len(hist) : hist[i].outcome # "ok"

\* the destination holds bytes of the download, not what it held before the first call
HoldsDownloaded ==
    /\ dest.exists
    /\ dest.data # << >>
    /\ dest.data # OldData
    /\ IsPrefix(dest.data, resource)

(* C12: once a call of download has ended, on whichever path, the          *)
(* temporary file is gone, and as long as no call has ended with a         *)
(* successful move no downloaded byte is at the destination.               *)
C12_TmpRemovedContentOnlyByMove ==
    (mode = "file" /\ pc = "idle") =>
        /\ tmp = Absent
        /\ NoCallSucceeded => ~HoldsDownloaded

-----------------------------------------------------------------------------
(* The running hash of download_iter, under SpecStream, where the reader   *)
(* of the stream may stop at any point                                     *)

(* C13: whenever download_iter is suspended or finished, its hash has been *)
(* fed each chunk yielded so far once, in the order yielded, the chunk     *)
(* just yielded included; the digest is taken once when the response is    *)
(* exhausted and never otherwise, further next() calls not taking it       *)
(* again; as long as the response is not exhausted, be it that the reader  *)
(* has stopped or that the transport failed, no digest is taken, no        *)
(* Integrity error raised and no warning given.                            *)
C13_HashOncePerChunk ==
    Gen.kind = "download_iter" =>
        LET g == Gen
        IN /\ g.hasher = Digest(Flat(g.sent))
           /\ g.hashed = Len(Flat(g.sent))
           /\ IsPrefix(Flat(g.sent), resource)
           /\ g.finalized = (IF g.exhausted THEN 1 ELSE 0)
           /\ g.exhausted => g.resp = << >> /\ Flat(g.sent) = resource /\ g.pc = "done"
           /\ ~g.exhausted =>
                 /\ g.exc # "Integrity"
                 /\ g.warnings = 0
                 /\ mode = "stream" => last.raised # "Integrity"
           /\ g.warnings + (IF g.exc = "Integrity" THEN 1 ELSE 0) <= g.finalized

\* two chunks hashed and yielded, the digest taken, then a readinto call on the finished generator
C13_Witness ==
    /\ mode = "stream"
    /\ Gen.kind = "download_iter"
    /\ Len(Gen.sent) = 2
    /\ Gen.finalized = 1
    /\ last.valid /\ last.pre.done /\ last.ret = 0

-----------------------------------------------------------------------------
(* stream_gzip_decompress over a plain list of chunks: the compressed      *)
(* bytes cut at any place, empty chunks included                           *)

GzChunkLists == SeqsUpTo(SeqsUpTo(Byte, MaxChunkLen), MaxChunks)

\* next() on the generator, by the consumer of its chunks; hist collects the chunks yielded
GzipNext ==
    /\ mode = "gzip"
    /\ pc = "open"
    /\ LET r == ItNext(stream)
       IN /\ stream' = r.it
          /\ CASE r.res = "chunk" ->
                    /\ hist' = Append(hist, r.chunk)
                    /\ out' = out \o r.chunk
                    /\ pc' = "open"
               [] r.res = "stop" ->
                    /\ UNCHANGED <<hist, out>>
                    /\ pc' = "done"
               [] OTHER ->
                    /\ UNCHANGED <<hist, out>>
                    /\ pc' = "raised"
    /\ UNCHANGED <<mode, resource, args, last, it, tmp, dest>>

InitGzip ==
    /\ mode = "gzip"
    /\ \E chunks \in GzChunkLists :
          /\ resource = Flat(chunks)
          /\ args = [fn |-> "stream_gzip_decompress", chunks |-> chunks]
          /\ stream = stream_gzip_decompress(ListIter(chunks))
    /\ out = << >>
    /\ last = NoLast
    /\ pc = "open"
    /\ it = NoObject
    /\ tmp = Absent
    /\ dest = Absent
    /\ hist = << >>

NextGzip == GzipNext

SpecGzip == InitGzip /\ [][NextGzip]_vars

\* the chunks the generator has taken from its input
Consumed == SubSeq(args.chunks, 1, Len(args.chunks) - Len(stream.stream.items))

(* what dec.decompress returns for each chunk of a list fed in order to    *)
(* one decompression object, as far as it does not raise                   *)
RECURSIVE Inflated(_, _)
Inflated(dec, chunks) ==
    IF chunks = << >> THEN << >>
    ELSE LET d == decompress(dec, Head(chunks), << >>)
         IN IF d.ok THEN <<d.rv>> \o Inflated(d.dec, Tail(chunks)) ELSE << >>

NonEmpty(x) == x # << >>

(* C14: the chunks stream_gzip_decompress has yielded are, in order, the   *)
(* non-empty ones among the outputs of its one decompression object for    *)
(* the input chunks taken so far, each fed once in input order; none is    *)
(* empty; their concatenation is the concatenation of those outputs; and   *)
(* when the generator ends, every input chunk was taken and the bytes      *)
(* yielded are what decompressing the concatenated input in one piece      *)
(* gives, wherever the chunk boundaries fall.                              *)
C14_GzipChunks ==
    mode = "gzip" =>
        LET outs == Inflated(decompressobj, Consumed)
            whole == decompress(decompressobj, Flat(Consumed), << >>)
        IN /\ \A i \in 1..Len(hist) : hist[i] # << >>
           /\ hist = SelectSeq(outs, NonEmpty)
           /\ Flat(hist) = Flat(outs) /\ out = Flat(hist)
           /\ pc # "raised" => Len(outs) = Len(Consumed) /\ whole.ok /\ out = whole.rv
           /\ pc = "raised" => ~whole.ok
           /\ pc = "done" => Consumed = args.chunks
                             /\ out = decompress(decompressobj, resource, << >>).rv

\* the header alone in the first chunk gives no output and nothing is yielded for it
C14_Witness ==
    /\ mode = "gzip"
    /\ pc = "done"
    /\ args.chunks = <<<<GzHeader>>, <<0, 1>>>>
    /\ hist = <<<<0, 1>>>>

-----------------------------------------------------------------------------
(* The buffer size of a call and the chunks of download_iter *)

\* a call of download or download_stream has its generator at work or its stream open
InCall == (mode = "stream" /\ pc = "open") \/ (mode = "file" /\ pc # "idle")

(* C15: for a call of download or download_stream with buffer_size = B,    *)
(* every chunk download_iter yields has at most B bytes, and when the      *)
(* response is exhausted the lengths of the chunks add up to the length of *)
(* the body.                                                               *)
C15_CallerBufferSize ==
    (InCall /\ Gen.kind = "download_iter") =>
        /\ \A i \in 1..Len(Gen.sent) : Len(Gen.sent[i]) <= args.buffer_size
        /\ Gen.exhausted => Len(Flat(Gen.sent)) = Len(resource)

-----------------------------------------------------------------------------
(* download with an expected digest that is not the digest of the body,    *)
(* under SpecFile                                                          *)

\* the arguments of a download or download_if_needed call whose expected digest does not match
Wrong(a) ==
    /\ a.fn \in {"download", "download_if_needed"}
    /\ a.expected_sha256 # None
    /\ a.expected_sha256[1] # Digest(resource)

\* a call whose expected digest does not match never gets to shutil.move and cannot succeed in downloading
NeverMoves ==
    (mode = "file" /\ Wrong(args)) =>
        /\ pc \in {"writing", "idle"}
        /\ pc = "idle" =>
              LET h == hist[Len(hist)]
              IN /\ h.outcome \in {"Integrity", "Network", "ok"}
                 /\ h.outcome = "ok" => ~h.fetch /\ h.fn = "download_if_needed" /\ dest.exists
                 /\ h.outcome = "Integrity" <=> (h.fetch /\ it.exhausted)
                 /\ tmp = Absent

\* no step of such a call touches the destination
DestUntouched == (mode = "file" /\ Wrong(args')) => dest' = dest

\* a download_if_needed call is made right after a call that ended with the Integrity error
DinAfterIntegrity ==
    /\ mode = "file" /\ pc = "idle"
    /\ Len(hist) > 0 /\ hist[Len(hist)].outcome = "Integrity"
    /\ Len(hist') = Len(hist) + 1
    /\ hist'[Len(hist')].fn = "download_if_needed"

(* C16 as stated: a call with a mismatching digest ends with the Integrity *)
(* error before shutil.move, the destination is not touched, and a         *)
(* download_if_needed call that follows downloads again.                   *)
C16_RefetchAfterMismatch ==
    /\ []NeverMoves
    /\ [][DestUntouched]_vars
    /\ [][DinAfterIntegrity => pc' = "writing"]_vars

(* C16 amended: a call with a mismatching digest ends with the Integrity   *)
(* error before shutil.move, the destination is not touched, and a         *)
(* download_if_needed call that follows downloads again exactly when there *)
(* is no file at the destination, that is, when there was none before the  *)
(* failed call.                                                            *)
C16_VerifyBeforePublish ==
    /\ []NeverMoves
    /\ [][DestUntouched]_vars
    /\ [][DinAfterIntegrity => (pc' = "writing" <=> ~dest.exists)]_vars

\* download_if_needed failed on the digest, nothing was put in place, and the next call fetched
C16_Witness ==
    /\ mode = "file"
    /\ Len(hist) = 2
    /\ hist[1] = [fn |-> "download_if_needed", fetch |-> TRUE, outcome |-> "Integrity"]
    /\ hist[2].fn = "download_if_needed" /\ hist[2].fetch
    /\ hist[2].outcome = "ok"
    /\ dest = File(resource) /\ Len(resource) = MaxBody

-----------------------------------------------------------------------------
(* readinto after download_iter has failed, under SpecStream *)

\* download_iter has raised: the Integrity error or the error of the transport
FetcherFailed == mode = "stream" /\ pc = "open" /\ Gen.kind = "download_iter" /\ Gen.exc # "none"

(* C17: download_iter raises inside a readinto call of the stream, which   *)
(* raises in turn; from then on the generator is finished and no           *)
(* IterStream holds a leftover, and every later readinto call returns 0    *)
(* without raising, hands out no byte and does not run the generator       *)
(* again, so the Integrity error is raised once at most.                   *)
C17_ErrorOnceThenEOF ==
    /\ [](FetcherFailed =>
             /\ last.valid
             /\ Gen.pc = "done"
             /\ (Gen.exc = "Integrity") => Gen.finalized = 1
             /\ OuterRaw(stream).leftover = << >>
             /\ InnerRaw(stream).leftover = << >>
             /\ ~last.pre.done => last.raised = Gen.exc
             /\ last.pre.done => last.raised = "none" /\ last.ret = 0 /\ last.data = << >>)
    /\ [][FetcherFailed =>
             /\ last'.raised = "none" /\ last'.ret = 0 /\ last'.data = << >>
             /\ last'.stopped
             /\ out' = out
             /\ Fetcher(stream') = Fetcher(stream)]_vars

\* a byte was read, the next call raised the Integrity error, the call after that returned 0
C17_Witness ==
    /\ FetcherFailed
    /\ Gen.exc = "Integrity"
    /\ Len(out) > 0
    /\ last.pre.done /\ last.ret = 0 /\ last.raised = "none"

====
